---- MODULE Spec2Model ----
(***************************************************************************)
(* Gait dashboard (src/app.py): the playback clock kept in                 *)
(* st.session_state (play, time) and the views derived from it.  The       *)
(* script is re-executed from top to bottom for every render cycle; one    *)
(* action of this model is one execution of the script, for one kind of    *)
(* user input (none, Play/Pause pressed, Reset pressed, slider moved).     *)
(*                                                                         *)
(* Times are exact: the unit is 1/(FPS * 100) second, so that the tick     *)
(* 1/FPS and the slider step 0.01 are both whole numbers of units.         *)
(***************************************************************************)
EXTENDS Integers, FiniteSets, Sequences, TLC

\* ---- configuration (src/app.py lines 10-13, 139) ----
VIDEO_DURATION_SECONDS == 6
FPS == 30
SliderStepsPerSecond == 100

UnitsPerSecond == FPS * SliderStepsPerSecond
Duration == VIDEO_DURATION_SECONDS * UnitsPerSecond
time_increment == UnitsPerSecond \div FPS
SliderStep == UnitsPerSecond \div SliderStepsPerSecond
Tenth == UnitsPerSecond \div 10

\* ---- bounds of the model ----
MaxFrames == 1
MaxTableSize == 4
MaxGenDuration == 8
MaxNumPoints == 6

\* slider positions (in steps of 0.01 s) a user drags the timeline to
ScrubPositions == {1, 5, 10, 230, 300, 590, 597, 599, 600}

None == -1

VARIABLES
  video_1_exists, video_2_exists,   \* os.path.exists of the two files
  video_1_frames, video_2_frames,   \* frames the decoder reads from each file
  session_state,                    \* st.session_state: << >> or [play, time]
  frames1, frames2,                 \* len of the pre-loaded frame lists, None before
  time_slider,                      \* value the slider returned in the last run
  current_data_index, frame_index,  \* views computed by the last run
  plot_data_until_now, insights,
  generate_args, gait_data,         \* arguments and result of generate_gait_data
  ticked,                           \* the last run entered the playback loop
  run_status,                       \* how the last run of the script ended
  event,                            \* the user input that the last run handled
  prior                             \* play and time before the last run

vars == <<video_1_exists, video_2_exists, video_1_frames, video_2_frames,
          session_state, frames1, frames2, time_slider, current_data_index,
          frame_index, plot_data_until_now, insights, ticked, run_status, event,
          prior, generate_args, gait_data>>

Min(a, b) == IF a <= b THEN a ELSE b

\* ---- pure functions of the script ----

\* line 110
VideoFilesMissing_Both(e1, e2) == ~e1 /\ ~e2

VideoFilesMissing(e1, e2) == ~e1 \/ ~e2

\* lines 117-120
InitSessionState(ss) ==
  IF DOMAIN ss = {} THEN [play |-> FALSE, time |-> 0] ELSE ss

\* lines 94-104: read until the decoder returns no frame; an unopened capture
\* returns no frame at the first read
GetVideoFrames(exists, nframes) == IF exists THEN nframes ELSE 0

\* line 125
NumFrames(f1, f2) == Min(f1, f2)

\* lines 130-132
PlayButton_AlwaysPlay(ss, pressed) ==
  IF pressed THEN [ss EXCEPT !.play = TRUE] ELSE ss

PlayButton(ss, pressed) ==
  IF pressed THEN [ss EXCEPT !.play = ~ss.play] ELSE ss

\* lines 134-136
ResetButton_KeepPlaying(ss) == [ss EXCEPT !.time = 0]

ResetButton(ss) == [ss EXCEPT !.play = FALSE, !.time = 0]

\* lines 139-142
TimeSlider_NoPause(ss, v) ==
  IF v # ss.time THEN [ss EXCEPT !.time = v] ELSE ss

TimeSlider_AlwaysPause(ss, v) == [ss EXCEPT !.time = v, !.play = FALSE]

TimeSlider(ss, v) ==
  IF v # ss.time THEN [ss EXCEPT !.time = v, !.play = FALSE] ELSE ss

\* lines 145-147: len(gait_data) is int(VIDEO_DURATION_SECONDS * FPS)
NumPoints == VIDEO_DURATION_SECONDS * FPS

NoTable == [rows |-> None, error |-> "none"]

\* lines 18-47: np.linspace(0, duration, num_points) gives num_points rows,
\* also for 0 and 1, and raises ValueError for a negative count; the function
\* itself checks nothing
GenerateGaitData(duration, num_points) ==
  IF num_points < 0
  THEN [rows |-> None, error |-> "ValueError"]
  ELSE [rows |-> num_points, error |-> "none"]

CurrentDataIndex_NoClamp(t, len) == (t * len) \div Duration

CurrentDataIndex(t, len) ==
  Min((t * len) \div Duration, len - 1)

\* lines 155-156: actual_fps = num_frames / VIDEO_DURATION_SECONDS
FrameIndex(t, nframes) ==
  Min((t * nframes) \div Duration, nframes - 1)

\* lines 160, 163: list indexing, negative indices count from the end
ImageOk(len, idx) == -len <= idx /\ idx < len

\* line 20 and line 168: rows of np.linspace(0, duration, num_points) with
\* Time <= t; row i is at i * duration / (num_points - 1)
PlotDataUntilNow(t, len) ==
  Cardinality({i \in 0..(len - 1) : i * Duration <= t * (len - 1)})

\* lines 51-89
GetAiInsights_NoCycle(t) ==
  LET cycle_time == t IN
  IF 0 <= cycle_time /\ cycle_time < 2 * Tenth THEN "Right Heel Strike"
  ELSE IF 2 * Tenth <= cycle_time /\ cycle_time < 8 * Tenth THEN "Left Swing Phase"
  ELSE IF 8 * Tenth <= cycle_time /\ cycle_time < 13 * Tenth THEN "Right Push-Off"
  ELSE IF 13 * Tenth <= cycle_time /\ cycle_time < 15 * Tenth THEN "Left Heel Strike"
  ELSE IF 15 * Tenth <= cycle_time /\ cycle_time < 20 * Tenth THEN "Right Swing Phase"
  ELSE "Overall Assessment"

GetAiInsights(t) ==
  LET cycle_time == t % (22 * Tenth) IN
  IF 0 <= cycle_time /\ cycle_time < 2 * Tenth THEN "Right Heel Strike"
  ELSE IF 2 * Tenth <= cycle_time /\ cycle_time < 8 * Tenth THEN "Left Swing Phase"
  ELSE IF 8 * Tenth <= cycle_time /\ cycle_time < 13 * Tenth THEN "Right Push-Off"
  ELSE IF 13 * Tenth <= cycle_time /\ cycle_time < 15 * Tenth THEN "Left Heel Strike"
  ELSE IF 15 * Tenth <= cycle_time /\ cycle_time < 20 * Tenth THEN "Right Swing Phase"
  ELSE "Overall Assessment"

\* lines 214-223
PlaybackLoop_WrapAtEnd(ss) ==
  IF ss.play
  THEN LET t1 == IF ss.time >= Duration THEN 0 ELSE ss.time + time_increment
       IN IF t1 > Duration
          THEN [ss EXCEPT !.time = 0]
          ELSE [ss EXCEPT !.time = t1]
  ELSE ss

PlaybackLoop_NoClamp(ss) ==
  IF ss.play
  THEN [ss EXCEPT !.time = IF ss.time >= Duration THEN 0
                           ELSE ss.time + time_increment]
  ELSE ss

PlaybackLoop(ss) ==
  IF ss.play
  THEN LET t1 == IF ss.time >= Duration THEN 0 ELSE ss.time + time_increment
       IN IF t1 > Duration
          THEN [ss EXCEPT !.time = Duration, !.play = FALSE]
          ELSE [ss EXCEPT !.time = t1]
  ELSE ss

\* lines 145-196 come before line 214: the views read the cursor left by the
\* input handling, not the one left by the playback loop
RenderCursor_AfterTick(afterInput, afterTick) == afterTick.time

RenderCursor(afterInput, afterTick) == afterInput.time

\* ---- one execution of the script ----

Init ==
  /\ video_1_exists \in BOOLEAN
  /\ video_2_exists \in BOOLEAN
  /\ video_1_frames \in 0..MaxFrames
  /\ video_2_frames \in 0..MaxFrames
  /\ session_state = << >>
  /\ frames1 = None
  /\ frames2 = None
  /\ time_slider = None
  /\ current_data_index = None
  /\ frame_index = None
  /\ plot_data_until_now = None
  /\ insights = "none"
  /\ ticked = FALSE
  /\ run_status = "none"
  /\ event = [kind |-> "none", value |-> None]
  /\ prior = [play |-> FALSE, time |-> 0]
  /\ generate_args = [duration |-> VIDEO_DURATION_SECONDS, num_points |-> NumPoints]
  /\ gait_data = NoTable

\* the script from line 107 to line 226, for one user input
Script(kind, value) ==
  /\ event' = [kind |-> kind, value |-> value]
  /\ UNCHANGED <<video_1_exists, video_2_exists, video_1_frames, video_2_frames,
                 generate_args>>
  /\ IF VideoFilesMissing(video_1_exists, video_2_exists)
     THEN \* lines 111-112: st.error, st.stop
          /\ run_status' = "stopped"
          /\ UNCHANGED <<session_state, frames1, frames2, time_slider,
                         current_data_index, frame_index, plot_data_until_now,
                         insights, ticked, prior, gait_data>>
     ELSE
       LET ss0 == InitSessionState(session_state)
           f1 == GetVideoFrames(video_1_exists, video_1_frames)
           f2 == GetVideoFrames(video_2_exists, video_2_frames)
           num_frames == NumFrames(f1, f2)
           ss1 == PlayButton(ss0, kind = "play")
       IN
       /\ prior' = ss0
       /\ frames1' = f1
       /\ frames2' = f2
       /\ IF kind = "reset"
          THEN \* lines 135-137: st.experimental_rerun ends this run here
               /\ session_state' = ResetButton(ss1)
               /\ run_status' = "rerun"
               /\ time_slider' = None
               /\ current_data_index' = None
               /\ frame_index' = None
               /\ plot_data_until_now' = None
               /\ insights' = "none"
               /\ ticked' = FALSE
               /\ gait_data' = NoTable
          ELSE
            LET v == IF kind = "scrub" THEN value ELSE ss1.time
                ss2 == TimeSlider(ss1, v)
                ss3 == PlaybackLoop(ss2)
                cursor == RenderCursor(ss2, ss3)
                fi == FrameIndex(cursor, num_frames)
                table == GenerateGaitData(generate_args.duration,
                                          generate_args.num_points)
            IN
            /\ time_slider' = v
            /\ gait_data' = table
            /\ current_data_index' = CurrentDataIndex(cursor, table.rows)
            /\ frame_index' = fi
            /\ IF ImageOk(f1, fi) /\ ImageOk(f2, fi)
               THEN /\ plot_data_until_now' = PlotDataUntilNow(cursor, table.rows)
                    /\ insights' = GetAiInsights(cursor)
                    /\ session_state' = ss3
                    /\ ticked' = ss2.play
                    /\ run_status' = IF ss2.play THEN "rerun" ELSE "done"
               ELSE \* IndexError at line 160 or 163 ends the run
                    /\ plot_data_until_now' = None
                    /\ insights' = "none"
                    /\ session_state' = ss2
                    /\ ticked' = FALSE
                    /\ run_status' = "exception"

\* a run with no widget changed: the rerun requested by the previous run, or
\* the page's own rerun command
RunScript == Script("none", None)

\* the Play / Pause button is clicked
ClickPlay == Script("play", None)

\* the Reset button is clicked
ClickReset == Script("reset", None)

\* the timeline slider is released at position p
Scrub(p) == Script("scrub", p * SliderStep)

Next ==
  \/ RunScript
  \/ ClickPlay
  \/ ClickReset
  \/ \E p \in ScrubPositions : Scrub(p)

Spec == Init /\ [][Next]_vars

\* ---- generate_gait_data on its own, for any arguments ----

InitGenerate ==
  /\ video_1_exists = TRUE
  /\ video_2_exists = TRUE
  /\ video_1_frames = 0
  /\ video_2_frames = 0
  /\ session_state = << >>
  /\ frames1 = None
  /\ frames2 = None
  /\ time_slider = None
  /\ current_data_index = None
  /\ frame_index = None
  /\ plot_data_until_now = None
  /\ insights = "none"
  /\ ticked = FALSE
  /\ run_status = "none"
  /\ event = [kind |-> "none", value |-> None]
  /\ prior = [play |-> FALSE, time |-> 0]
  /\ generate_args \in [duration : 1..MaxGenDuration, num_points : (-1)..MaxNumPoints]
  /\ gait_data = NoTable

\* one call of generate_gait_data(duration, num_points)
Generate ==
  /\ gait_data = NoTable
  /\ gait_data' = GenerateGaitData(generate_args.duration, generate_args.num_points)
  /\ UNCHANGED <<video_1_exists, video_2_exists, video_1_frames, video_2_frames,
                 session_state, frames1, frames2, time_slider, current_data_index,
                 frame_index, plot_data_until_now, insights, ticked, run_status,
                 event, prior, generate_args>>

NextGenerate == Generate

SpecGenerate == InitGenerate /\ [][NextGenerate]_vars

\* ---- properties ----

\* the script got past the video check in the last run
Started == run_status \in {"done", "rerun", "exception"}

\* the last run computed every view and reached the playback loop
Rendered == run_status \in {"done", "rerun"} /\ event.kind # "reset"

\* C1 as stated: a run in which the slider is released at t, whatever the
\* cursor and the mode were, ends with cursor t, paused, and no tick.
C1_ScrubAlwaysPauses ==
  (Rendered /\ event.kind = "scrub") =>
     /\ session_state.time = event.value
     /\ ~session_state.play
     /\ ~ticked

\* C1 amended: a run in which the slider is released at t ends with cursor t,
\* paused and without a tick, unless t is the current cursor and the mode is
\* Running (that seek is a no-op).
C1_ScrubPauses ==
  (Started /\ event.kind = "scrub" /\ ~(event.value = prior.time /\ prior.play)) =>
     /\ session_state.time = event.value
     /\ ~session_state.play
     /\ ~ticked

C1_Witness ==
  /\ Rendered /\ event.kind = "scrub"
  /\ prior.play /\ prior.time # event.value
  /\ session_state.time = event.value /\ ~session_state.play

\* C2: pressing Reset yields cursor 0 and Paused from any prior state, with no
\* tick in the run that handles it nor in the rerun that follows it.
C2_Reset ==
  [][/\ (event'.kind = "reset" /\ run_status' = "rerun") =>
          (session_state' = [play |-> FALSE, time |-> 0] /\ ~ticked')
     /\ (event.kind = "reset" /\ run_status = "rerun" /\ event'.kind = "none") =>
          (session_state' = [play |-> FALSE, time |-> 0] /\ ~ticked')]_vars

C2_Witness ==
  /\ event.kind = "reset" /\ run_status = "rerun"
  /\ prior.play /\ prior.time > 0
  /\ session_state.time = 0 /\ ~session_state.play

\* C3 as stated: in a run without user input that starts Running, the tick
\* adds exactly time_increment while the result stays below Duration, and once
\* the cursor reaches Duration the mode is Paused with the cursor at Duration.
C3_PlaybackStopsAtEnd ==
  (Rendered /\ event.kind = "none" /\ prior.play) =>
     IF prior.time + time_increment < Duration
     THEN session_state = [play |-> TRUE, time |-> prior.time + time_increment]
     ELSE session_state = [play |-> FALSE, time |-> Duration]

\* C4: a tick from a cursor below Duration that would pass Duration sets the
\* cursor to Duration and the mode to Paused.
C4_TickClamps ==
  (ticked /\ time_slider < Duration /\ time_slider + time_increment > Duration) =>
     session_state = [play |-> FALSE, time |-> Duration]

C4_Witness ==
  /\ ticked /\ time_slider = 599 * SliderStep
  /\ session_state = [play |-> FALSE, time |-> Duration]

\* C5: at every run boundary the cursor is within 0..Duration.
C5_CursorInBounds ==
  Started => (0 <= session_state.time /\ session_state.time <= Duration)

C5_Witness ==
  /\ ticked /\ time_slider < Duration /\ session_state.time = Duration

\* the cursor once the input of the last run was handled (lines 130-142)
PostInput ==
  IF event.kind = "scrub" /\ event.value # prior.time THEN event.value
  ELSE prior.time

\* C6: in every run the sample index, the frame index, the plotted series and
\* the insight record are all computed from the cursor left by that run's
\* input handling, and the tick is applied to that cursor after them.
C6_ViewsShareCursor ==
  Rendered =>
     /\ current_data_index = CurrentDataIndex(PostInput, NumPoints)
     /\ frame_index = FrameIndex(PostInput, NumFrames(frames1, frames2))
     /\ plot_data_until_now = PlotDataUntilNow(PostInput, NumPoints)
     /\ insights = GetAiInsights(PostInput)
     /\ ticked => session_state = PlaybackLoop([play |-> TRUE, time |-> PostInput])
     /\ ~ticked => session_state.time = PostInput

C6_Witness ==
  /\ Rendered /\ ticked /\ event.kind = "play"
  /\ session_state.time = prior.time + time_increment
  /\ current_data_index = CurrentDataIndex(prior.time, NumPoints)
  /\ current_data_index # CurrentDataIndex(session_state.time, NumPoints)
  /\ insights # GetAiInsights(session_state.time)

\* the sample index of cursor t in a table of n rows, by its defining property:
\* the largest k <= n - 1 with k * Duration <= t * n
IsSampleIndex(k, t, n) ==
  /\ k \in 0..(n - 1)
  /\ k * Duration <= t * n
  /\ (k < n - 1) => (t * n < (k + 1) * Duration)

TableSizes == (1..MaxTableSize) \cup {NumPoints}

\* C7: for every cursor and table size N >= 1 the sample index is
\* min(floor(cursor * N / Duration), N - 1), lies in 0..N-1 and is monotonic
\* non-decreasing in the cursor; the index shown at cursor 3.0 is 90.
C7_SampleIndex ==
  Started =>
     /\ \A n \in TableSizes :
          /\ IsSampleIndex(CurrentDataIndex(session_state.time, n), session_state.time, n)
          /\ IsSampleIndex(CurrentDataIndex(prior.time, n), prior.time, n)
          /\ (prior.time <= session_state.time) =>
                (CurrentDataIndex(prior.time, n) <= CurrentDataIndex(session_state.time, n))
          /\ (prior.time >= session_state.time) =>
                (CurrentDataIndex(prior.time, n) >= CurrentDataIndex(session_state.time, n))
          /\ \A p \in ScrubPositions :
                /\ (p * SliderStep <= session_state.time) =>
                      (CurrentDataIndex(p * SliderStep, n) <= CurrentDataIndex(session_state.time, n))
                /\ (p * SliderStep >= session_state.time) =>
                      (CurrentDataIndex(p * SliderStep, n) >= CurrentDataIndex(session_state.time, n))
     /\ (Rendered /\ time_slider = 3 * UnitsPerSecond) => current_data_index = 90

C7_Witness ==
  /\ Rendered /\ event.kind = "scrub" /\ time_slider = 3 * UnitsPerSecond
  /\ current_data_index = 90

\* the six windows of the cycle of 2.2 s, as <<from, to, title>> in tenths
InsightWindows ==
  { <<0, 2, "Right Heel Strike">>, <<2, 8, "Left Swing Phase">>,
    <<8, 13, "Right Push-Off">>, <<13, 15, "Left Heel Strike">>,
    <<15, 20, "Right Swing Phase">>, <<20, 22, "Overall Assessment">> }

WindowsOf(t) ==
  { w \in InsightWindows :
      w[1] * Tenth <= t % (22 * Tenth) /\ t % (22 * Tenth) < w[2] * Tenth }

\* C8: every t falls in exactly one of the six half-open windows of t mod 2.2
\* and gets that window's record; t and t + 2.2 get the same record, and
\* t = 0.05 and t = 2.3 both give Right Heel Strike.
C8_InsightWindows ==
  Started =>
     /\ \A t \in {session_state.time, prior.time} :
          /\ Cardinality(WindowsOf(t)) = 1
          /\ \A w \in WindowsOf(t) : GetAiInsights(t) = w[3]
          /\ GetAiInsights(t + 22 * Tenth) = GetAiInsights(t)
     /\ (Rendered /\ time_slider \in {5 * SliderStep, 230 * SliderStep}) =>
          insights = "Right Heel Strike"

C8_Witness ==
  /\ Rendered /\ time_slider = 230 * SliderStep
  /\ insights = "Right Heel Strike"

\* C9 as stated: a run in which a video has no frame for the cursor (a source
\* that decoded to zero frames) still completes, and the clock keeps ticking.
C9_RunSurvivesMissingFrame ==
  (Started /\ (frames1 = 0 \/ frames2 = 0)) =>
     /\ run_status # "exception"
     /\ (prior.play /\ event.kind = "none") => ticked

\* C10: with either video file missing the run halts before the session state
\* is initialised, before any frame is loaded and before any view or tick.
C10_HaltBeforeInit ==
  (~video_1_exists \/ ~video_2_exists) =>
     /\ run_status \in {"none", "stopped"}
     /\ DOMAIN session_state = {}
     /\ frames1 = None /\ frames2 = None
     /\ time_slider = None /\ current_data_index = None /\ frame_index = None
     /\ plot_data_until_now = None /\ insights = "none"
     /\ ~ticked

C10_Witness ==
  /\ run_status = "stopped"
  /\ video_1_exists /\ ~video_2_exists
  /\ DOMAIN session_state = {}

\* C11: a run that handles a click on Play / Pause has the mode flipped when
\* it reaches the playback loop and renders the cursor that was there before
\* the click; a click on Pause while Running applies no tick in that run.
C11_PlayButtonFlipsMode ==
  (Started /\ event.kind = "play") =>
     /\ time_slider = prior.time
     /\ current_data_index = CurrentDataIndex(prior.time, NumPoints)
     /\ frame_index = FrameIndex(prior.time, NumFrames(frames1, frames2))
     /\ Rendered =>
          /\ ticked = ~prior.play
          /\ plot_data_until_now = PlotDataUntilNow(prior.time, NumPoints)
          /\ insights = GetAiInsights(prior.time)
          /\ session_state = PlaybackLoop([play |-> ~prior.play, time |-> prior.time])
     /\ ~Rendered => session_state = [play |-> ~prior.play, time |-> prior.time]
     /\ prior.play =>
          (~ticked /\ session_state = [play |-> FALSE, time |-> prior.time])

C11_Witness ==
  /\ Rendered /\ event.kind = "play"
  /\ prior.play /\ prior.time > 0
  /\ ~ticked /\ session_state = [play |-> FALSE, time |-> prior.time]

\* C12 as stated: generate(duration, numPoints) fails exactly when
\* numPoints < 2, otherwise returns exactly numPoints samples, so that no table
\* with fewer than 2 samples is produced.
C12_GenerateRejectsShortTables ==
  (gait_data # NoTable) =>
     /\ (gait_data.error # "none") <=> (generate_args.num_points < 2)
     /\ (gait_data.error = "none") =>
          (gait_data.rows = generate_args.num_points /\ gait_data.rows >= 2)

\* C13 as stated: a tick that starts in mode Running with the cursor exactly
\* at Duration sets the mode to Paused and leaves the cursor at Duration.
C13_TickAtEndPauses ==
  (ticked /\ time_slider = Duration) =>
     session_state = [play |-> FALSE, time |-> Duration]

\* the mode once the input of the last run was handled (lines 130-142)
PostInputMode ==
  IF event.kind = "reset" THEN FALSE
  ELSE IF event.kind = "scrub" /\ event.value # prior.time THEN FALSE
  ELSE IF event.kind = "play" THEN ~prior.play
  ELSE prior.play

\* C14: a slider value equal to the current cursor changes neither the cursor
\* nor the mode, so while Running it does not pause playback and the playback
\* loop ticks from that cursor.
C14_SliderEchoIsNoOp ==
  (Started /\ event.kind # "reset" /\ time_slider = prior.time) =>
     LET mode == IF event.kind = "play" THEN ~prior.play ELSE prior.play IN
     /\ Rendered =>
          /\ ticked = mode
          /\ session_state = PlaybackLoop([play |-> mode, time |-> prior.time])
     /\ ~Rendered =>
          session_state = [play |-> mode, time |-> prior.time]

C14_Witness ==
  /\ Rendered /\ event.kind = "scrub" /\ event.value = prior.time
  /\ prior.play /\ ticked
  /\ session_state = [play |-> TRUE, time |-> prior.time + time_increment]

\* C15 as stated: a run applies a tick exactly when the mode is Running once
\* its input is handled, and applies it once; a run without input that starts
\* Paused leaves cursor and mode unchanged.
C15_TickIffRunning ==
  Started =>
     /\ ticked <=> PostInputMode
     /\ ticked => session_state = PlaybackLoop([play |-> TRUE, time |-> PostInput])
     /\ (event.kind = "none" /\ ~prior.play) => session_state = prior

\* C16 as stated: both videos are shown the frame at index
\* min(floor(cursor * frameCount / Duration), frameCount - 1), frameCount the
\* smaller of the two frame counts, and that index is within 0..frameCount-1.
C16_FrameIndexValid ==
  (Started /\ event.kind # "reset") =>
     LET frameCount == Min(frames1, frames2) IN
     /\ frame_index = Min((PostInput * frameCount) \div Duration, frameCount - 1)
     /\ 0 <= frame_index /\ frame_index <= frameCount - 1
     /\ frame_index < frames1 /\ frame_index < frames2

\* C17 as stated: the row picked by the sample index has Time <= cursor (row i
\* is at i * Duration / (N - 1)), so it is the last row of the series plotted
\* up to the cursor, which is never empty.
C17_CurrentPointInSeries ==
  Rendered =>
     /\ current_data_index * Duration <= PostInput * (gait_data.rows - 1)
     /\ plot_data_until_now >= 1
     /\ current_data_index = plot_data_until_now - 1

====
